---- MODULE Spec2Model ----
(***************************************************************************)
(* Model of wair-cleaner (src/main.py): the /clean request handler, its    *)
(* token check, source fetch, Pillow normalisation (_ensure_png_bytes,     *)
(* _downscale_if_needed), the rembg invocation and the response building.  *)
(***************************************************************************)
EXTENDS Integers, Sequences, FiniteSets, TLC

VARIABLES
    CLEANER_TOKEN,  \* os.environ.get("CLEANER_TOKEN"): None, "" or a secret
    DEBUG,          \* main.py:18
    pc,             \* position of the handler within the current request
    req,            \* the bound request inputs of clean()
    raw,            \* fetched source bytes
    source,         \* "upload" | "url"
    src_png,        \* normalized PNG bytes
    out,            \* bytes returned by remove()
    response,       \* the HTTP response of the request
    log,            \* server-side log records of the request
    fetched,        \* what file.read or client.get produced
    modelExc,       \* the exception remove() raised, if any
    normFault,      \* which Pillow failure ended _ensure_png_bytes, if any
    stages,         \* the stages the request ran, in order
    fetches,        \* client.get calls of the request
    reads,          \* file.read calls of the request
    normCalls,      \* _ensure_png_bytes calls of the request
    removeCalls     \* remove() calls of the request

vars == <<CLEANER_TOKEN, DEBUG, pc, req, raw, source, src_png, out, response, log,
          fetched, modelExc, normFault, stages, fetches, reads, normCalls, removeCalls>>

-----------------------------------------------------------------------------
(* Configuration and bounds *)

MAX_SIDE == 2048

\* how many sizes just above MAX_SIDE an input side may take
MaxOver == 2

None == "<None>"

Truthy(x) == x # None /\ x # ""

Max(a, b) == IF a >= b THEN a ELSE b

-----------------------------------------------------------------------------
(* IEEE-754 binary64 arithmetic, as CPython's float does it.  A float is    *)
(* [digits, exp]: digits is a string of base-2^13 digits, most significant  *)
(* first, whose leading digit carries the leading bit, and the float stands  *)
(* for the integer the digits write times 2^exp.  1 + 4 * 13 = 53            *)
(* significant bits are kept; every operation rounds to nearest, ties to     *)
(* even.  Valid for operands below 2^13 (image sides of the model).          *)

LimbBits == 13

FracLimbs == 4

Limb == 2^LimbBits

RECURSIVE BitLen(_)
BitLen(n) == IF n = 0 THEN 0 ELSE 1 + BitLen(n \div 2)

RECURSIVE LimbsToNat(_)
LimbsToNat(d) ==
    IF d = <<>> THEN 0
    ELSE Limb * LimbsToNat(SubSeq(d, 1, Len(d) - 1)) + d[Len(d)]

RECURSIVE IncLimbs(_)
\* the digit string plus one; the leading digit absorbs the last carry
IncLimbs(d) ==
    LET n == Len(d) IN
    IF n = 1 THEN <<d[1] + 1>>
    ELSE IF d[n] + 1 < Limb THEN [d EXCEPT ![n] = d[n] + 1]
    ELSE IncLimbs(SubSeq(d, 1, n - 1)) \o <<0>>

RECURSIVE MulLimbs(_, _, _)
\* the digit string times a small natural k, plus carry
MulLimbs(d, k, carry) ==
    LET n == Len(d)
        t == d[n] * k + carry
    IN  IF n = 1 THEN <<t>>
        ELSE MulLimbs(SubSeq(d, 1, n - 1), k, t \div Limb) \o <<t % Limb>>

\* the digit string with its s low bits dropped (0 <= s <= LimbBits)
ShiftRight(d, s) ==
    [i \in 1..Len(d) |->
        IF i = 1 THEN d[1] \div 2^s
        ELSE (d[i - 1] % 2^s) * 2^(LimbBits - s) + d[i] \div 2^s]

\* round to nearest, ties to even, a product whose leading digit outgrew one bit
RoundNearestEven(f) ==
    LET n    == Len(f.digits)
        s    == BitLen(f.digits[1]) - 1
        low  == f.digits[n] % 2^s
        q    == ShiftRight(f.digits, s)
        half == IF s = 0 THEN 1 ELSE 2^(s - 1)
        up   == s > 0 /\ (low > half \/ (low = half /\ q[n] % 2 = 1))
    IN  [digits |-> IF up THEN IncLimbs(q) ELSE q, exp |-> f.exp + s]

RECURSIVE LeadExp(_, _)
\* least e with a * 2^e >= m
LeadExp(a, m) == IF a >= m THEN 0 ELSE 1 + LeadExp(2 * a, m)

RECURSIVE QuotLimbs(_, _, _)
\* the first n base-2^13 digits of r / m, for r < m, followed by the remainder left
QuotLimbs(r, m, n) ==
    IF n = 0 THEN <<r>>
    ELSE <<(r * Limb) \div m>> \o QuotLimbs((r * Limb) % m, m, n - 1)

\* a / float(m) for integers 1 <= a < 2m: the correctly rounded quotient
FloatDiv(a, m) ==
    LET e      == LeadExp(a, m)
        q      == QuotLimbs(a * 2^e - m, m, FracLimbs)
        digits == <<1>> \o SubSeq(q, 1, FracLimbs)
        rem    == q[FracLimbs + 1]
        up     == 2 * rem > m \/ (2 * rem = m /\ q[FracLimbs] % 2 = 1)
    IN  [digits |-> IF up THEN IncLimbs(digits) ELSE digits,
         exp |-> 0 - (e + LimbBits * FracLimbs)]

\* w * f for an integer w >= 1: the correctly rounded product
FloatMulInt(w, f) ==
    RoundNearestEven([digits |-> MulLimbs(f.digits, w, 0), exp |-> f.exp])

\* int(f): truncation toward zero of a non-negative float
FloatToInt(f) ==
    LET s == 0 - f.exp
        k == s \div LimbBits
        n == Len(f.digits)
    IN  IF s <= 0 THEN LimbsToNat(f.digits) * 2^(f.exp)
        ELSE IF k >= n THEN 0
        ELSE LimbsToNat(SubSeq(f.digits, 1, n - k)) \div 2^(s % LimbBits)

-----------------------------------------------------------------------------
(* Image normalisation *)

\* a variant that rounds to the nearest integer instead of truncating
ScaledSideRounded(x, m) == Max(1, (2 * x * MAX_SIDE + m) \div (2 * m))

\* main.py:38-39, one axis: max(1, int(x * (MAX_SIDE / float(m))))
ScaledSide(x, m) == Max(1, FloatToInt(FloatMulInt(x, FloatDiv(MAX_SIDE, m))))

\* main.py:36
FitsMaxSide(m) == m <= MAX_SIDE

\* _downscale_if_needed: the size of the returned image
DownscaleSize(w, h) ==
    LET m == Max(w, h) IN
    IF FitsMaxSide(m) THEN <<w, h>>
    ELSE <<ScaledSide(w, m), ScaledSide(h, m)>>

\* a variant that leaves three-channel images unconverted
ConvertKeepsRGB(mode) == IF mode = "RGB" THEN "RGB" ELSE "RGBA"

\* im.convert("RGBA"), main.py:47
Convert(mode) == "RGBA"

\* channels per pixel of a Pillow mode
Channels(mode) ==
    IF mode = "RGBA" THEN 4 ELSE IF mode = "RGB" THEN 3 ELSE 1

\* What Pillow makes of the bytes: "unidentified" (Image.open raises
\* UnidentifiedImageError), "truncated" (im.load raises OSError), or "image".
\* _ensure_png_bytes on decodable bytes: the re-encoded PNG
EnsurePng(img) ==
    LET size == DownscaleSize(img.w, img.h)
    IN  [kind |-> "image", fmt |-> "PNG", mode |-> Convert(img.mode),
         w |-> size[1], h |-> size[2], enc |-> "pillow"]

\* hashlib.sha256(b).hexdigest()
Sha256Hex(b) == [sha256 |-> b]

\* base64.b64encode(b).decode("ascii")
B64(b) == [b64 |-> b]

-----------------------------------------------------------------------------
(* Inputs *)

Secret == "s3cret"

EnvTokens == {None, "", Secret}

HeaderTokens == {None, "", Secret, "wrong"}

ContentTypes == {None, "image/jpeg", "text/plain"}

\* content_type.startswith("image/"), over the content types of the model
StartsWithImage(ct) == ct \in {"image/jpeg"}

ImageUrls == {None, "", "http://host/a.jpg"}

ReturnModes == {None, "json", "png"}

NoFile == [present |-> FALSE, content_type |-> None]

Files == {NoFile} \cup [present : {TRUE}, content_type : ContentTypes]

Requests == [token : HeaderTokens, file : Files, image_url : ImageUrls,
             return_mode : ReturnModes]

Dims == {1, 100, 561, MAX_SIDE, 2215, 2244, 2 * MAX_SIDE, 5000}
            \cup ((MAX_SIDE + 1)..(MAX_SIDE + MaxOver))

Encodings == {<<"JPEG", "RGB">>, <<"PNG", "L">>, <<"PNG", "RGBA">>}

Images == {[kind |-> "image", fmt |-> e[1], mode |-> e[2], w |-> w, h |-> h,
            enc |-> "source"] : e \in Encodings, w \in Dims, h \in Dims}

NoBytes == [kind |-> "none"]

Empty == [kind |-> "empty"]

Broken == {[kind |-> "unidentified"], [kind |-> "truncated"]}

Payloads == {Empty} \cup Broken \cup Images

Statuses == {200, 304, 400, 404, 500}

NoFetch == [error |-> FALSE, status |-> 0, body |-> NoBytes]

\* file.read either raises or returns the uploaded bytes
ReadOutcomes ==
    {[error |-> TRUE, status |-> 0, body |-> NoBytes]}
        \cup {[error |-> FALSE, status |-> 0, body |-> b] : b \in Payloads}

\* client.get either raises (network, timeout, DNS) or returns a response
UpstreamOutcomes ==
    {[error |-> TRUE, status |-> 0, body |-> NoBytes]}
        \cup {[error |-> FALSE, status |-> s, body |-> b] :
                s \in Statuses, b \in {Empty, [kind |-> "unidentified"]}}
        \cup {[error |-> FALSE, status |-> 200, body |-> b] : b \in Payloads}

NoException == [type |-> None, msg |-> None]

Exceptions == {[type |-> "RuntimeError", msg |-> "onnxruntime: invalid graph"],
               [type |-> "ValueError", msg |-> "bad input shape"]}

-----------------------------------------------------------------------------
(* Responses *)

NoHeaders == <<>>

NoResponse == [status |-> 0, media |-> None, headers |-> NoHeaders, body |-> <<>>]

\* raise HTTPException(status_code, detail): FastAPI answers {"detail": detail}
HTTPException(status, detail) ==
    [status |-> status, media |-> "application/json", headers |-> NoHeaders,
     body |-> [detail |-> detail]]

\* JSONResponse(status_code, content), and a returned dict
JSONResponse(status, content) ==
    [status |-> status, media |-> "application/json", headers |-> NoHeaders,
     body |-> content]

\* Response(content, media_type, headers)
RawResponse(content, media, headers) ==
    [status |-> 200, media |-> media, headers |-> headers,
     body |-> [content |-> content]]

-----------------------------------------------------------------------------
(* The /clean handler, main.py:57-134 *)

NoRequest == [token |-> None, file |-> NoFile, image_url |-> None,
              return_mode |-> None]

Init ==
    /\ CLEANER_TOKEN \in EnvTokens
    /\ DEBUG \in BOOLEAN
    /\ pc = "idle"
    /\ req = NoRequest
    /\ raw = NoBytes
    /\ source = None
    /\ src_png = NoBytes
    /\ out = NoBytes
    /\ response = NoResponse
    /\ log = <<>>
    /\ fetched = NoFetch
    /\ modelExc = NoException
    /\ normFault = None
    /\ stages = <<>>
    /\ fetches = 0
    /\ reads = 0
    /\ normCalls = 0
    /\ removeCalls = 0

\* a request arrives and the framework binds its inputs
Receive ==
    /\ pc = "idle"
    /\ \E r \in Requests : req' = r
    /\ pc' = "auth"
    /\ UNCHANGED <<CLEANER_TOKEN, DEBUG, raw, source, src_png, out, response, log,
                   fetched, modelExc, normFault, stages, fetches, reads, normCalls,
                   removeCalls>>

\* the response is sent and the request's locals are dropped
Return ==
    /\ pc = "done"
    /\ pc' = "idle"
    /\ req' = NoRequest
    /\ raw' = NoBytes
    /\ source' = None
    /\ src_png' = NoBytes
    /\ out' = NoBytes
    /\ response' = NoResponse
    /\ log' = <<>>
    /\ fetched' = NoFetch
    /\ modelExc' = NoException
    /\ normFault' = None
    /\ stages' = <<>>
    /\ fetches' = 0
    /\ reads' = 0
    /\ normCalls' = 0
    /\ removeCalls' = 0
    /\ UNCHANGED <<CLEANER_TOKEN, DEBUG>>

\* main.py:64: the header lookup is case-insensitive, both lookups agree
HeaderToken(h) == IF Truthy(h) THEN h ELSE h

\* a variant without the "not token" test
TokenRejectedOnMismatchOnly(token, envToken) == token # envToken

\* a variant that lets every request through when no token is configured
TokenRejectedUnlessUnset(token, envToken) ==
    Truthy(envToken) /\ (~Truthy(token) \/ token # envToken)

\* main.py:65
TokenRejected(token, envToken) == ~Truthy(token) \/ token # envToken

\* main.py:64-67
Authorize ==
    /\ pc = "auth"
    /\ stages' = Append(stages, "auth")
    /\ IF TokenRejected(HeaderToken(req.token), CLEANER_TOKEN)
       THEN /\ log' = Append(log, "warning: invalid token")
            /\ response' = HTTPException(401, [error |-> "invalid token"])
            /\ pc' = "done"
       ELSE /\ pc' = "select"
            /\ UNCHANGED <<log, response>>
    /\ UNCHANGED <<CLEANER_TOKEN, DEBUG, req, raw, source, src_png, out, fetched,
                   modelExc, normFault, fetches, reads, normCalls, removeCalls>>

\* main.py:69
MissingInput(r) == ~Truthy(r.image_url) /\ ~r.file.present

\* main.py:69-71
SelectSource ==
    /\ pc = "select"
    /\ stages' = Append(stages, "select")
    /\ IF MissingInput(req)
       THEN /\ log' = Append(log, "warning: missing input")
            /\ response' = HTTPException(400, [error |-> "provide image_url or file"])
            /\ pc' = "done"
       ELSE /\ pc' = "fetch"
            /\ UNCHANGED <<log, response>>
    /\ UNCHANGED <<CLEANER_TOKEN, DEBUG, req, raw, source, src_png, out, fetched,
                   modelExc, normFault, fetches, reads, normCalls, removeCalls>>

\* main.py:76
WrongContentType(ct) == Truthy(ct) /\ ~StartsWithImage(ct)

\* a variant with the comparison off by one
UpstreamRejectedAbove(status) == status > 400

\* main.py:92
UpstreamRejected(status) == status >= 400

\* main.py:80, 96: not raw
NoBody(b) == b = Empty

\* the fetch stage ends the request with a 400
FetchFails(detail, entry) ==
    /\ response' = HTTPException(400, detail)
    /\ log' = Append(log, entry)
    /\ pc' = "done"
    /\ UNCHANGED source

\* main.py:75-83
FetchUpload ==
    IF WrongContentType(req.file.content_type)
    THEN /\ FetchFails([error |-> "upload must be an image"],
                       "warning: non-image content-type")
         /\ UNCHANGED <<raw, fetched, reads, fetches>>
    ELSE \E r \in ReadOutcomes :
            /\ reads' = reads + 1
            /\ fetched' = r
            /\ UNCHANGED fetches
            /\ IF r.error
               THEN /\ FetchFails([error |-> "failed to fetch source image"],
                                  "exception: fetch error")
                    /\ UNCHANGED raw
               ELSE /\ raw' = r.body
                    /\ IF NoBody(r.body)
                       THEN FetchFails([error |-> "empty upload"],
                                       "warning: empty upload")
                       ELSE /\ source' = "upload"
                            /\ pc' = "normalize"
                            /\ UNCHANGED <<response, log>>

\* main.py:84-99
FetchUrl ==
    \E u \in UpstreamOutcomes :
        /\ fetches' = fetches + 1
        /\ fetched' = u
        /\ UNCHANGED reads
        /\ IF u.error
           THEN /\ FetchFails([error |-> "failed to fetch source image"],
                              "exception: fetch error")
                /\ UNCHANGED raw
           ELSE IF UpstreamRejected(u.status)
           THEN /\ FetchFails([error |-> "fetch failed", status_code |-> u.status],
                              "warning: fetch failed")
                /\ UNCHANGED raw
           ELSE /\ raw' = u.body
                /\ IF NoBody(u.body)
                   THEN FetchFails([error |-> "empty download"],
                                   "warning: fetched URL had no body")
                   ELSE /\ source' = "url"
                        /\ pc' = "normalize"
                        /\ UNCHANGED <<response, log>>

\* main.py:100-102
FetchNeither ==
    /\ FetchFails([error |-> "provide image_url or file"],
                  "warning: neither file nor image_url")
    /\ UNCHANGED <<raw, fetched, reads, fetches>>

\* main.py:74-109
FetchSource ==
    /\ pc = "fetch"
    /\ stages' = Append(stages, "fetch")
    /\ IF req.file.present THEN FetchUpload
       ELSE IF Truthy(req.image_url) THEN FetchUrl
       ELSE FetchNeither
    /\ UNCHANGED <<CLEANER_TOKEN, DEBUG, req, src_png, out, modelExc, normFault,
                   normCalls, removeCalls>>

\* the exception Pillow raises inside _ensure_png_bytes, None when it raises none:
\* Image.open does not identify the bytes, im.load finds them truncated, or the
\* convert / resize / save of a decodable image fails unexpectedly
PillowFaults(b) ==
    IF b.kind = "unidentified" THEN {"UnidentifiedImageError"}
    ELSE IF b.kind = "truncated" THEN {"OSError"}
    ELSE {None, "MemoryError"}

\* main.py:51-55: the detail of the HTTPException a Pillow failure becomes
NormalizeFailure(fault) ==
    IF fault = "UnidentifiedImageError"
    THEN [error |-> "unsupported or corrupt image"]
    ELSE [error |-> "failed to parse image"]

\* main.py:112, 42-55
Normalize ==
    /\ pc = "normalize"
    /\ stages' = Append(stages, "normalize")
    /\ normCalls' = normCalls + 1
    /\ \E fault \in PillowFaults(raw) :
        /\ normFault' = fault
        /\ IF fault = None
           THEN /\ src_png' = EnsurePng(raw)
                /\ pc' = "remove"
                /\ UNCHANGED <<response, log>>
           ELSE /\ response' = HTTPException(400, NormalizeFailure(fault))
                /\ log' = IF fault = "UnidentifiedImageError" THEN log
                          ELSE Append(log, "exception: Pillow decode/encode failed")
                /\ pc' = "done"
                /\ UNCHANGED src_png
    /\ UNCHANGED <<CLEANER_TOKEN, DEBUG, req, raw, source, out, fetched, modelExc,
                   fetches, reads, removeCalls>>

\* a variant whose debug answer drops the failure status
ModelFailureDebugOk(e, debug) ==
    LET error_detail == [error |-> "clean failed", exception |-> e.msg,
                         exception_type |-> e.type]
    IN  IF debug THEN JSONResponse(200, error_detail)
        ELSE HTTPException(502, error_detail)

\* main.py:119-126
ModelFailure(e, debug) ==
    LET error_detail == [error |-> "clean failed", exception |-> e.msg,
                         exception_type |-> e.type]
    IN  IF debug THEN JSONResponse(502, error_detail)
        ELSE HTTPException(502, error_detail)

\* main.py:115-126
Remove ==
    /\ pc = "remove"
    /\ stages' = Append(stages, "remove")
    /\ removeCalls' = removeCalls + 1
    /\ \E e \in {NoException} \cup Exceptions :
        /\ modelExc' = e
        /\ IF e = NoException
           THEN /\ out' = [kind |-> "cutout", of |-> src_png]
                /\ pc' = "respond"
                /\ UNCHANGED <<response, log>>
           ELSE /\ log' = Append(log, "exception: remove() failed")
                /\ response' = ModelFailure(e, DEBUG)
                /\ pc' = "done"
                /\ UNCHANGED out
    /\ UNCHANGED <<CLEANER_TOKEN, DEBUG, req, raw, source, src_png, fetched,
                   normFault, fetches, reads, normCalls>>

\* main.py:128-134
BuildResponse(png, o, return_mode, kind) ==
    LET etag    == Sha256Hex(png)
        headers == [ETag |-> etag,
                    CacheControl |-> "public, max-age=31536000, immutable"]
    IN  IF return_mode = "json"
        THEN JSONResponse(200, [ok |-> TRUE, source |-> kind, etag |-> etag,
                                png_b64 |-> B64(o)])
        ELSE RawResponse(o, "image/png", headers)

\* main.py:128-134
Respond ==
    /\ pc = "respond"
    /\ stages' = Append(stages, "respond")
    /\ response' = BuildResponse(src_png, out, req.return_mode, source)
    /\ log' = IF req.return_mode = "json"
              THEN Append(log, "info: returning json payload") ELSE log
    /\ pc' = "done"
    /\ UNCHANGED <<CLEANER_TOKEN, DEBUG, req, raw, source, src_png, out, fetched,
                   modelExc, normFault, fetches, reads, normCalls, removeCalls>>

Next ==
    \/ Receive
    \/ Authorize
    \/ SelectSource
    \/ FetchSource
    \/ Normalize
    \/ Remove
    \/ Respond
    \/ Return

Spec == Init /\ [][Next]_vars

-----------------------------------------------------------------------------
(* Properties *)

\* the request presents the configured, non-empty token
Authorized == req.token # None /\ req.token # "" /\ req.token = CLEANER_TOKEN

\* the handler ran past the token check of the current request
PastAuth == pc \notin {"idle", "auth"}

\* the handler ran past the fetch stage of the current request
PastFetch == pc \in {"normalize", "remove", "respond", "done"} /\ Len(stages) >= 3

NothingProcessed ==
    /\ fetches = 0
    /\ reads = 0
    /\ normCalls = 0
    /\ removeCalls = 0
    /\ raw = NoBytes
    /\ src_png = NoBytes
    /\ out = NoBytes

\* the error detail a response carries, whichever way it was built
Detail(r) == IF "detail" \in DOMAIN r.body THEN r.body.detail ELSE r.body

ExposesException(r) ==
    \/ "exception" \in DOMAIN Detail(r)
    \/ "exception_type" \in DOMAIN Detail(r)

CacheForever == "public, max-age=31536000, immutable"

Downscaled ==
    /\ normFault = None
    /\ src_png # NoBytes
    /\ raw.kind = "image"

\* C1: a request whose X-Cleaner-Token header is missing or differs from the
\* configured token is answered 401, and nothing is fetched, read, normalized or
\* passed to remove() on that request, whatever its other inputs
C1_UnauthorizedIs401 ==
    (PastAuth /\ (req.token = None \/ req.token # CLEANER_TOKEN))
        => /\ pc = "done"
           /\ response.status = 401
           /\ NothingProcessed

C1_Witness ==
    /\ pc = "done"
    /\ CLEANER_TOKEN = Secret
    /\ req.token = "wrong"
    /\ req.file.present
    /\ req.image_url = "http://host/a.jpg"
    /\ response.status = 401

\* C2 as stated: with CLEANER_TOKEN unset or empty no request is rejected with
\* 401 on account of its token header
C2_UnsetTokenDisablesAuth ==
    (pc = "done" /\ CLEANER_TOKEN \in {None, ""}) => response.status # 401

\* C2, amended: with CLEANER_TOKEN unset or empty every request to /clean is
\* answered 401, whatever its token header, and never reaches source validation
C2_UnsetTokenRejectsAll ==
    (PastAuth /\ CLEANER_TOKEN \in {None, ""})
        => /\ pc = "done"
           /\ response.status = 401
           /\ stages = <<"auth">>
           /\ NothingProcessed

C2_Witness ==
    /\ pc = "done"
    /\ CLEANER_TOKEN = None
    /\ req.token = Secret
    /\ req.file.present
    /\ response.status = 401

\* C3: an authorized request with both a file and an image_url, or with neither,
\* is answered 400 and nothing is fetched, normalized or passed to remove()
C3_ExactlyOneSource ==
    (pc = "done" /\ Authorized
        /\ (req.file.present <=> Truthy(req.image_url)))
        => /\ response.status = 400
           /\ fetches = 0
           /\ normCalls = 0
           /\ removeCalls = 0

\* C4 as stated: an oversized w x h image is normalized to exactly
\* (max(1, floor(w*MAX_SIDE/m)), max(1, floor(h*MAX_SIDE/m))), m = max(w, h)
C4_ExactFloorSize ==
    (Downscaled /\ Max(raw.w, raw.h) > MAX_SIDE)
        => LET m == Max(raw.w, raw.h)
           IN  /\ src_png.w = Max(1, (raw.w * MAX_SIDE) \div m)
               /\ src_png.h = Max(1, (raw.h * MAX_SIDE) \div m)

\* C4, amended: each output side is floor(side*MAX_SIDE/m) or one less (the
\* product is taken in binary64), never below 1; the larger side is MAX_SIDE or
\* MAX_SIDE - 1, never above; both axes go through the same scaling, and
\* 4096 x 2048 becomes 2048 x 1024
C4_DownscaleWithinOnePixel ==
    (Downscaled /\ Max(raw.w, raw.h) > MAX_SIDE)
        => LET m  == Max(raw.w, raw.h)
               fw == (raw.w * MAX_SIDE) \div m
               fh == (raw.h * MAX_SIDE) \div m
           IN  /\ src_png.w \in {Max(1, fw), Max(1, fw - 1)}
               /\ src_png.h \in {Max(1, fh), Max(1, fh - 1)}
               /\ src_png.w >= 1 /\ src_png.h >= 1
               /\ Max(src_png.w, src_png.h) \in {MAX_SIDE - 1, MAX_SIDE}
               /\ (raw.w = raw.h => src_png.w = src_png.h)
               /\ (raw.w <= raw.h => src_png.w <= src_png.h)
               /\ (raw.w >= raw.h => src_png.w >= src_png.h)
               /\ ((raw.w = 2 * MAX_SIDE /\ raw.h = MAX_SIDE)
                     => (src_png.w = MAX_SIDE /\ 2 * src_png.h = MAX_SIDE))

C4_Witness ==
    /\ pc = "remove"
    /\ Downscaled
    /\ raw.w = 2215 /\ raw.h = 561
    /\ src_png.w = MAX_SIDE - 1
    /\ src_png.h = (561 * MAX_SIDE) \div 2215

\* C5: an image whose larger side is at most MAX_SIDE keeps its dimensions and
\* comes out with exactly 4 channels (RGBA) whatever its source layout, and
\* normalizing normalized bytes again changes neither dimensions nor layout
C5_SmallImageUnchanged ==
    Downscaled
        => /\ (Max(raw.w, raw.h) <= MAX_SIDE
                 => (src_png.w = raw.w /\ src_png.h = raw.h))
           /\ src_png.mode = "RGBA"
           /\ Channels(src_png.mode) = 4
           /\ Max(src_png.w, src_png.h) <= MAX_SIDE
           /\ EnsurePng(src_png).w = src_png.w
           /\ EnsurePng(src_png).h = src_png.h
           /\ EnsurePng(src_png).mode = src_png.mode

C5_Witness ==
    /\ pc = "remove"
    /\ Downscaled
    /\ raw.w = MAX_SIDE /\ raw.h = 100
    /\ raw.mode = "RGB"
    /\ src_png.w = MAX_SIDE /\ src_png.h = 100
    /\ src_png.mode = "RGBA"

\* C6: when remove() raises and DEBUG is off, the answer is a 502 whose body
\* carries neither the exception's message nor its type name
C6_NoExceptionTextWithoutDebug ==
    (pc = "done" /\ modelExc # NoException /\ ~DEBUG)
        => /\ response.status = 502
           /\ ~ExposesException(response)

\* C7: every 200 response, raw or JSON, carries Cache-Control public, immutable,
\* max-age one year, and an ETag equal to the SHA-256 of the normalized bytes
C7_SuccessIsCacheable ==
    (pc = "done" /\ response.status = 200)
        => /\ DOMAIN response.headers = {"ETag", "CacheControl"}
           /\ response.headers.ETag = [sha256 |-> src_png]
           /\ response.headers.CacheControl = CacheForever

\* C8: every normalization failure ends the request with 400 and the one
\* generic message "unsupported or corrupt image", and remove() is not called
C8_OneGenericMessage ==
    (pc = "done" /\ normFault # None)
        => /\ response.status = 400
           /\ Detail(response) = [error |-> "unsupported or corrupt image"]
           /\ removeCalls = 0

\* C9: every failure of the fetch stage of an authorized request ends it with
\* 400 and without normalization or remove(): a declared non-image content type
\* (before the body is read), an empty upload, an upstream status >= 400 (the
\* body carries that status), an empty download, a network or read exception
C9_FetchFailureIs400 ==
    (PastFetch /\ Authorized)
        => LET ended == /\ pc = "done"
                        /\ response.status = 400
                        /\ normCalls = 0
                        /\ removeCalls = 0
                        /\ src_png = NoBytes
           IN  /\ (req.file.present /\ req.file.content_type = "text/plain")
                     => (ended /\ reads = 0 /\ fetches = 0)
               /\ fetched.error => ended
               /\ (~fetched.error /\ fetched.status >= 400)
                     => /\ ended
                        /\ "status_code" \in DOMAIN Detail(response)
                        /\ Detail(response).status_code = fetched.status
               /\ (~fetched.error /\ fetched.body = Empty) => ended

C9_Witness ==
    /\ pc = "done"
    /\ Authorized
    /\ ~req.file.present
    /\ fetches = 1
    /\ fetched.status = 404
    /\ response.status = 400
    /\ Detail(response) = [error |-> "fetch failed", status_code |-> 404]

StageOrder == <<"auth", "select", "fetch", "normalize", "remove", "respond">>

\* C10: the stages of a request run in the order authorization, source
\* selection, fetch, normalization, remove(), response; remove() is called at
\* most once, and only after the token check passed, a non-empty payload was
\* fetched and normalization succeeded; a 200 follows only a remove() that
\* returned; an exception of remove() always gives 502
C10_StageOrder ==
    /\ Len(stages) <= Len(StageOrder)
    /\ \A i \in 1..Len(stages) : stages[i] = StageOrder[i]
    /\ removeCalls <= 1
    /\ removeCalls = 1
         => /\ Authorized
            /\ raw \notin {NoBytes, Empty}
            /\ normCalls = 1
            /\ normFault = None
            /\ src_png # NoBytes
            /\ SubSeq(stages, 1, 5) = SubSeq(StageOrder, 1, 5)
    /\ response.status = 200
         => /\ removeCalls = 1
            /\ modelExc = NoException
            /\ out = [kind |-> "cutout", of |-> src_png]
            /\ stages = StageOrder
    /\ (pc = "done" /\ modelExc # NoException) => response.status = 502

C10_Witness ==
    /\ pc = "done"
    /\ modelExc # NoException
    /\ DEBUG
    /\ req.return_mode = "json"
    /\ removeCalls = 1
    /\ response.status = 502

====
